---- MODULE Spec2Model ----
(***************************************************************************)
(* XcodeRemote (src/xcode_remote.py): the build-log change-detection loop  *)
(* (wait_for_build_completion, build, main) and the log parser             *)
(* (parse_build_log).                                                      *)
(*                                                                         *)
(* Text is a sequence of atoms.  An atom is a fixed piece of text; the     *)
(* string a sequence denotes is the concatenation of its atoms.  No atom   *)
(* is a prefix of another, '/' occurs only as the first character of a     *)
(* path atom and ':' only as the atom ":" or as the last character of a    *)
(* tag atom, so two sequences denote the same string exactly when they are *)
(* equal, and every regular expression of the source matches on atom       *)
(* boundaries.  All atoms are lower case (line.lower() and re.IGNORECASE   *)
(* leave them as they are) and none holds a double quote.                  *)
(***************************************************************************)
EXTENDS Integers, Sequences, FiniteSets, Bags, TLC

\* ------------------------------------------------------------------ bounds
MaxChunks == 4      \* chunks in a line drawn for the per-line checks
MaxLines == 3       \* lines in a log drawn for the whole-log checks
MaxTimeout == 6     \* the largest --timeout drawn, in seconds
MaxWrites == 2      \* log files the IDE writes during one run

\* ------------------------------------------------------------------- atoms
Pad == "y*980"      \* a run of 980 'y'

PathAtoms == {"/a.swift", "/a.m"}
SwiftExt == {"/a.swift"}            \* paths ending \.swift
ObjcExt == {"/a.m"}                 \* paths ending \.mm?
SourceExt == {"/a.swift", "/a.m"}   \* paths ending \.(?:swift|c(?:pp)?|h|mm?)

SwiftPhrases == {"cannot override"}
ObjcPhrases == {"property"}

AtomLen(a) ==
    CASE a = "/a.swift" -> 8
      [] a = "/a.m" -> 4
      [] a = ":" -> 1
      [] a = "1" -> 1
      [] a = "2" -> 1
      [] a = " " -> 1
      [] a = "error:" -> 6
      [] a = "warning:" -> 8
      [] a = "note:" -> 5
      [] a = "cannot override" -> 15
      [] a = "property" -> 8
      [] a = "x" -> 1
      [] a = Pad -> 980

HasColon(a) == a \in {":", "error:", "warning:", "note:"}
IsSpace(a) == a = " "
IsDigit(a) == a \in {"1", "2"}

RECURSIVE StrLen(_)
StrLen(s) == IF s = <<>> THEN 0 ELSE AtomLen(Head(s)) + StrLen(Tail(s))

Min(S) == CHOOSE m \in S : \A n \in S : m <= n
Max(S) == CHOOSE m \in S : \A n \in S : m >= n

RECURSIVE LStrip(_)
LStrip(s) == IF s # <<>> /\ IsSpace(Head(s)) THEN LStrip(Tail(s)) ELSE s

RECURSIVE RStrip(_)
RStrip(s) ==
    IF s # <<>> /\ IsSpace(s[Len(s)]) THEN RStrip(SubSeq(s, 1, Len(s) - 1)) ELSE s

Strip(s) == RStrip(LStrip(s))

\* The first k characters of atom a, 0 < k < AtomLen(a).
CutAtom(a, k) == a \o "[:" \o ToString(k) \o "]"

\* s[:n]
RECURSIVE Truncate(_, _)
Truncate(s, n) ==
    IF s = <<>> \/ n = 0 THEN <<>>
    ELSE IF AtomLen(Head(s)) <= n
         THEN <<Head(s)>> \o Truncate(Tail(s), n - AtomLen(Head(s)))
         ELSE <<CutAtom(Head(s), n)>>

Contains(s, atoms) == \E i \in 1..Len(s) : s[i] \in atoms

\* ---------------------------------------------------- regular expressions
\* A match object is a record with ok TRUE and the groups; None is NoMatch.
NoMatch == [ok |-> FALSE]

\* re.search tries the start positions from the left: at[i] is the match
\* tried at i.
Leftmost(at) ==
    LET starts == {i \in DOMAIN at : at[i].ok}
    IN  IF starts = {} THEN NoMatch ELSE at[Min(starts)]

\* The index of the first atom after i that holds a ':', or 0.
FirstColon(line, i) ==
    LET ks == {k \in (i + 1)..Len(line) : HasColon(line[k])}
    IN  IF ks = {} THEN 0 ELSE Min(ks)

\* (/[^:]+\.EXT): from the '/' at i.  [^:]+ runs over colon-free text, and the
\* group must end in the extension right before a ':', which can only be the
\* first colon after i.  The index of that colon, or 0.
PathAt(line, i, exts) ==
    LET Ends(k) == IF k # 0 /\ line[k] = ":" /\ line[k - 1] \in exts THEN k ELSE 0
    IN  IF line[i] \notin PathAtoms THEN 0 ELSE Ends(FirstColon(line, i))

\* The last index of the run of digits that starts at p, or 0.
DigitsEnd(line, p) ==
    IF p > Len(line) \/ ~IsDigit(line[p]) THEN 0
    ELSE Max({q \in p..Len(line) : \A j \in p..q : IsDigit(line[j])})

\* :\d+:\d+ from the colon at k (both runs of digits whole).
LocAt(line, k) ==
    LET Cols(l2, c2) ==
            IF c2 = 0 THEN NoMatch
            ELSE [ok |-> TRUE, l1 |-> k + 1, l2 |-> l2, c1 |-> l2 + 2, c2 |-> c2]
        Rows(l2) ==
            IF l2 = 0 \/ l2 + 1 > Len(line) \/ line[l2 + 1] # ":" THEN NoMatch
            ELSE Cols(l2, DigitsEnd(line, l2 + 2))
    IN  Rows(DigitsEnd(line, k + 1))

\* The group of \s*(.+) on a non-empty rest: it keeps one character when the
\* rest is all whitespace.
GreedyRest(rest) ==
    LET Keep(group) == IF group = <<>> THEN <<rest[Len(rest)]>> ELSE group
    IN  Keep(LStrip(rest))

\* The group of (.+?)(?:\s*$) on a non-empty rest.
LazyRest(rest) ==
    LET Keep(group) == IF group = <<>> THEN <<rest[1]>> ELSE group
    IN  Keep(RStrip(rest))

\* (/[^:]+\.(?:swift|c(?:pp)?|h|mm?)):\d+:\d+.*?TAG\s*(.+) tried at i: the lazy
\* .*? stops at the first TAG that text follows.
FileTagMatchAt(line, tag, i) ==
    LET Tagged(k, es) ==
            IF es = {} THEN NoMatch
            ELSE [ok |-> TRUE,
                  g1 |-> SubSeq(line, i, k - 1),
                  g2 |-> GreedyRest(SubSeq(line, Min(es) + 1, Len(line)))]
        Located(k, loc) ==
            IF ~loc.ok THEN NoMatch
            ELSE Tagged(k, {e \in (loc.c2 + 1)..(Len(line) - 1) : line[e] = tag})
        From(k) == IF k = 0 THEN NoMatch ELSE Located(k, LocAt(line, k))
    IN  From(PathAt(line, i, SourceExt))

FileTagMatch(line, tag) ==
    Leftmost([i \in 1..Len(line) |-> FileTagMatchAt(line, tag, i)])

\* (/[^:]+\.(?:swift|c(?:pp)?|h|mm?)):(.+)
SimpleErrorMatchAt(line, i) ==
    LET From(k) ==
            IF k = 0 \/ k = Len(line) THEN NoMatch
            ELSE [ok |-> TRUE,
                  g1 |-> SubSeq(line, i, k - 1),
                  g2 |-> SubSeq(line, k + 1, Len(line))]
    IN  From(PathAt(line, i, SourceExt))

SimpleErrorMatch(line) ==
    Leftmost([i \in 1..Len(line) |-> SimpleErrorMatchAt(line, i)])

\* .* file_path :(.+?)(?:\s*$) searched in message_part: the greedy .* takes
\* the last occurrence of the path that a ':' and one more character follow.
ErrorMsgMatch(file_path, message_part) ==
    LET Last(n, ps) ==
            IF ps = {} THEN NoMatch
            ELSE [ok |-> TRUE,
                  g1 |-> LazyRest(SubSeq(message_part, Max(ps) + n + 1,
                                         Len(message_part)))]
        Occurs(n) ==
            Last(n, {p \in 1..(Len(message_part) - n - 1) :
                        /\ SubSeq(message_part, p, p + n - 1) = file_path
                        /\ message_part[p + n] = ":"})
    IN  Occurs(Len(file_path))

\* The index of the last whitespace of the run that starts at p, or 0.
SpacesEnd(line, p) ==
    IF p > Len(line) \/ ~IsSpace(line[p]) THEN 0
    ELSE Max({q \in p..Len(line) : \A j \in p..q : IsSpace(line[j])})

\* (/[^:]+\.EXT):(\d+):(\d+)\s+(.+) tried at i; with message FALSE, the
\* condition of the branch, (/[^:]+\.EXT):\d+:\d+\s+
HeuristicMatchAt(line, exts, i, message) ==
    LET \* \s+ gives back its last space when nothing follows the run
        Text(k, loc, s2, from) ==
            IF from = loc.c2 + 1 THEN NoMatch
            ELSE [ok |-> TRUE,
                  file_path |-> SubSeq(line, i, k - 1),
                  line_num |-> SubSeq(line, loc.l1, loc.l2),
                  col_num |-> SubSeq(line, loc.c1, loc.c2),
                  message |-> SubSeq(line, from, Len(line))]
        Spaced(k, loc, s2) ==
            IF s2 = 0 THEN NoMatch
            ELSE IF ~message THEN [ok |-> TRUE]
            ELSE Text(k, loc, s2, IF s2 < Len(line) THEN s2 + 1 ELSE s2)
        Located(k, loc) ==
            IF ~loc.ok THEN NoMatch ELSE Spaced(k, loc, SpacesEnd(line, loc.c2 + 1))
        From(k) == IF k = 0 THEN NoMatch ELSE Located(k, LocAt(line, k))
    IN  From(PathAt(line, i, exts))

HeuristicMatch(line, exts, message) ==
    Leftmost([i \in 1..Len(line) |-> HeuristicMatchAt(line, exts, i, message)])

\* note:\s*(.+)
NoteMatch(line) ==
    LET First(es) ==
            IF es = {} THEN NoMatch
            ELSE [ok |-> TRUE,
                  g1 |-> GreedyRest(SubSeq(line, Min(es) + 1, Len(line)))]
    IN  First({e \in 1..(Len(line) - 1) : line[e] = "note:"})

\* ------------------------------------------------------------ parse_build_log
\* A result collection is a bag of messages: the multiplicity of a message is
\* the number of times the returned list holds it.
EmptyResult == [errors |-> EmptyBag, warnings |-> EmptyBag, notes |-> EmptyBag]

\* set.add
ListAppend(coll, msg) == coll (+) SetToBag({msg})

SetAdd(coll, msg) == IF BagIn(msg, coll) THEN coll ELSE coll (+) SetToBag({msg})

MaxLineLen == 1000
MsgLimit == 200

HasTag(line, tag) == Contains(line, {tag})

\* The fallback of the simple error format: message_part.strip(); the quote
\* clean-up that follows leaves it as it is when the text holds no '"'.
FallbackClean(message_part) == Strip(message_part)

\* if 'error:' in line.lower():
ErrorBranch(result, line) ==
    LET Add(file_path, clean_message) ==
            IF clean_message # <<>>
            THEN [result EXCEPT !.errors = SetAdd(@, file_path \o <<":">> \o clean_message)]
            ELSE result
        Clean(file_path, message_part, error_msg_match) ==
            Add(file_path, IF error_msg_match.ok
                           THEN Strip(error_msg_match.g1)
                           ELSE FallbackClean(message_part))
        Simple(simple_error_match) ==
            IF simple_error_match.ok
            THEN Clean(simple_error_match.g1, simple_error_match.g2,
                       ErrorMsgMatch(simple_error_match.g1, simple_error_match.g2))
            ELSE result
        File(file_error_match) ==
            IF file_error_match.ok
            THEN [result EXCEPT !.errors =
                     SetAdd(@, file_error_match.g1 \o <<":">> \o Strip(file_error_match.g2))]
            ELSE Simple(SimpleErrorMatch(line))
    IN  File(FileTagMatch(line, "error:"))

\* elif len(line) < 1000 and re.search(r'(/[^:]+\.EXT):\d+:\d+\s+', line):
HeuristicCondition(line, exts) ==
    StrLen(line) < MaxLineLen /\ HeuristicMatch(line, exts, FALSE).ok

\* if any(pattern in line.lower() for pattern in [...]): the match, the record.
HeuristicBranch(result, line, exts, phrases) ==
    LET Record(m) ==
            IF m.ok
            THEN [result EXCEPT !.errors =
                     SetAdd(@, m.file_path \o <<":">> \o m.line_num \o <<":">>
                               \o m.col_num \o <<" ">>
                               \o Truncate(Strip(m.message), MsgLimit))]
            ELSE result
    IN  IF Contains(line, phrases)
        THEN Record(HeuristicMatch(line, exts, TRUE))
        ELSE result

\* elif 'warning:' in line.lower():
WarningBranch(result, line) ==
    LET Record(file_warning_match) ==
            IF file_warning_match.ok
            THEN [result EXCEPT !.warnings =
                     SetAdd(@, file_warning_match.g1 \o <<":">>
                               \o Strip(file_warning_match.g2))]
            ELSE result
    IN  Record(FileTagMatch(line, "warning:"))

\* elif 'note:' in line.lower():
NoteBranch(result, line) ==
    LET Record(note_match) ==
            IF note_match.ok
            THEN [result EXCEPT !.notes = SetAdd(@, Strip(note_match.g1))]
            ELSE result
    IN  Record(NoteMatch(line))

\* The languages of the two heuristic branches, in the order of the elifs.
Heuristics == <<[exts |-> SwiftExt, phrases |-> SwiftPhrases],
                [exts |-> ObjcExt, phrases |-> ObjcPhrases]>>

\* A chain of independent ifs in the place of the elifs.
ParseLineIfs(result, line) ==
    LET Note(r) == IF HasTag(line, "note:") THEN NoteBranch(r, line) ELSE r
        Warning(r) ==
            Note(IF HasTag(line, "warning:") THEN WarningBranch(r, line) ELSE r)
    IN  Warning(IF HasTag(line, "error:") THEN ErrorBranch(result, line) ELSE result)

\* A chain that would try the 'warning:' and 'note:' tags before the heuristics.
ParseLineTagsFirst(result, line) ==
    LET Rest(taken) ==
            IF taken # {}
            THEN HeuristicBranch(result, line, Heuristics[Min(taken)].exts,
                                 Heuristics[Min(taken)].phrases)
            ELSE result
    IN  IF HasTag(line, "error:") THEN ErrorBranch(result, line)
        ELSE IF HasTag(line, "warning:") THEN WarningBranch(result, line)
        ELSE IF HasTag(line, "note:") THEN NoteBranch(result, line)
        ELSE Rest({h \in 1..Len(Heuristics) :
                      HeuristicCondition(line, Heuristics[h].exts)})

\* The body of "for line in lines": one if / elif chain.
ParseLine(result, line) ==
    LET Rest(taken) ==
            IF taken # {}
            THEN HeuristicBranch(result, line, Heuristics[Min(taken)].exts,
                                 Heuristics[Min(taken)].phrases)
            ELSE IF HasTag(line, "warning:") THEN WarningBranch(result, line)
            ELSE IF HasTag(line, "note:") THEN NoteBranch(result, line)
            ELSE result
    IN  IF HasTag(line, "error:") THEN ErrorBranch(result, line)
        ELSE Rest({h \in 1..Len(Heuristics) :
                      HeuristicCondition(line, Heuristics[h].exts)})

RECURSIVE ParseLines(_, _)
ParseLines(result, lines) ==
    IF lines = <<>> THEN result
    ELSE ParseLines(ParseLine(result, Head(lines)), Tail(lines))

\* A log file's content: its lines once decompressed, or Unreadable when
\* gzip.open or read raises (the except clause leaves the result empty).
Unreadable == <<<<"unreadable">>>>

parse_build_log(content) ==
    IF content = Unreadable THEN EmptyResult ELSE ParseLines(EmptyResult, content)

\* --------------------------------------------------------------- the inputs
\* A line is up to MaxChunks chunks, then possibly a long run of filler.
Chunks == {"SwLoc", "MLoc", " ", ":", "error:", "warning:", "note:",
           "cannot override", "property", "x"}

Expand(c) ==
    CASE c = "SwLoc" -> <<"/a.swift", ":", "1", ":", "2">>
      [] c = "MLoc" -> <<"/a.m", ":", "1", ":", "2">>
      [] OTHER -> <<c>>

RECURSIVE Concat(_)
Concat(cs) == IF cs = <<>> THEN <<>> ELSE Expand(Head(cs)) \o Concat(Tail(cs))

Lines == {Concat(cs) \o tail :
             cs \in UNION {[1..n -> Chunks] : n \in 0..MaxChunks},
             tail \in {<<>>, <<Pad>>}}

\* Log contents the IDE writes.
PlainLine == <<"x">>
WarningLine == Concat(<<"SwLoc", ":", " ", "warning:", " ", "x">>)
ErrorLine == Concat(<<"SwLoc", ":", " ", "error:", " ", "x">>)
NoteLine == Concat(<<"note:", " ", "x">>)

WarningLog == <<WarningLine, NoteLine>>
ErrorLog == <<WarningLine, ErrorLine>>
Contents == {WarningLog, ErrorLog, Unreadable}

\* Lines of the logs drawn for the whole-log checks: the second and the third
\* are different lines with the same formatted message.
HeuristicLine == Concat(<<"SwLoc", " ", "cannot override">>)
SimpleErrorLine == Concat(<<"error:", "SwLoc", " ", "cannot override">>)
LogLines == {PlainLine, HeuristicLine, SimpleErrorLine, ErrorLine, WarningLine,
             NoteLine}

\* ------------------------------------------------------------------- state
\* The *.xcactivitylog files of the project's Logs/Build directory (no file
\* when the DerivedData or Logs/Build directory is missing).
Names == {"a", "b"}
None == "None"
NoFile == [present |-> FALSE, mtime |-> 0, content |-> <<>>]
File(t, c) == [present |-> TRUE, mtime |-> t, content |-> c]

VARIABLES
    pc,             \* where main / build / wait_for_build_completion stands
    now,            \* time.time(), in seconds
    fs,             \* Names -> the log file of that name
    timeout,        \* args.timeout
    launched,       \* Xcode was frontmost or opened, and trigger_build returned True
    initial_log, initial_time, start_time,
    last_modified, stable_count,
    completed, build_success,   \* what wait_for_build_completion returned
    success,        \* what build() returned
    exit_code,      \* sys.exit
    writes,         \* files written by the IDE so far
    \* history, for the statements only
    outcome,        \* how wait_for_build_completion ended
    trigger_time,   \* the clock when trigger_build returned
    written,        \* the IDE wrote a log between the trigger and the return of the wait
    saw_written,    \* a start-detection sample saw a log written after the trigger
    hist,           \* modification times seen by the last stability samples
    sampled_at,     \* the clock at the last sample, 0 before the first
    stable_log,     \* the file parsed when completion was signalled
    final_log,      \* the file build() fetched again and parsed
    parsed,         \* what parse_build_log returns for each content, computed once
    \* the parser checks
    line, lineDone, lineResult,
    log, logStage, logResult, baseline

wait_vars == <<initial_log, initial_time, start_time, last_modified, stable_count,
               completed, build_success, outcome, saw_written, hist,
               sampled_at, stable_log>>
build_vars == <<timeout, launched, success, exit_code, trigger_time, final_log>>
parser_vars == <<parsed, line, lineDone, lineResult, log, logStage, logResult,
                 baseline>>
vars == <<pc, now, fs, wait_vars, build_vars, writes, written, parser_vars>>

\* get_latest_build_log: the name of the file with the largest st_mtime.
get_latest_build_log(files) ==
    LET log_files == {n \in Names : files[n].present}
    IN  IF log_files = {} THEN None
        ELSE CHOOSE n \in log_files :
                 \A m \in log_files : files[m].mtime <= files[n].mtime

NoLog == [name |-> None, mtime |-> 0, content |-> <<>>]
LogAt(files, n) ==
    IF n = None THEN NoLog
    ELSE [name |-> n, mtime |-> files[n].mtime, content |-> files[n].content]

Idle ==
    /\ initial_log = None /\ initial_time = 0 /\ start_time = 0
    /\ last_modified = 0 /\ stable_count = 0
    /\ completed = FALSE /\ build_success = FALSE
    /\ launched = FALSE
    /\ success = FALSE
    /\ exit_code = -1
    /\ writes = 0
    /\ outcome = "running"
    /\ trigger_time = 0
    /\ written = FALSE
    /\ saw_written = FALSE
    /\ hist = <<>>
    /\ sampled_at = 0
    /\ stable_log = NoLog
    /\ final_log = NoLog

Tabulated == parsed = [c \in Contents |-> parse_build_log(c)]

NoParse ==
    /\ line = <<>> /\ lineDone = TRUE /\ lineResult = EmptyResult
    /\ log = <<>> /\ logStage = "off" /\ logResult = EmptyResult
    /\ baseline = EmptyResult

\* The logs of earlier builds carry earlier times than the clock.
Init ==
    /\ pc = "main"
    /\ now = 3
    /\ \E fa \in {NoFile} \cup {File(1, c) : c \in Contents},
          fb \in {NoFile} \cup {File(2, c) : c \in Contents} :
           fs = [n \in Names |-> IF n = "a" THEN fa ELSE fb]
    /\ timeout \in -1..MaxTimeout
    /\ Idle
    /\ Tabulated
    /\ NoParse

\* --------------------------------------------------------------- the program
\* main: check_accessibility_permissions, then XcodeRemote(project_path),
\* which raises when the path does not exist.
MainStart(permitted, exists) ==
    /\ pc = "main"
    /\ IF permitted /\ exists
       THEN pc' = "build" /\ UNCHANGED exit_code
       ELSE pc' = "exit" /\ exit_code' = 1
    /\ UNCHANGED <<now, fs, wait_vars, timeout, launched, success, trigger_time,
                   final_log, writes, written, parser_vars>>

\* build: open the project unless Xcode is frontmost, then trigger_build.  The
\* clock starts after the 2 seconds open_project_in_xcode sleeps: the logs of
\* earlier builds are older than every reading of it either way.
BuildTrigger(xcode_already_active, opened, triggered) ==
    /\ pc = "build"
    /\ launched' = ((xcode_already_active \/ opened) /\ triggered)
    /\ IF (xcode_already_active \/ opened) /\ triggered
       THEN pc' = "wait" /\ trigger_time' = now /\ UNCHANGED success
       ELSE pc' = "return" /\ success' = FALSE /\ UNCHANGED trigger_time
    /\ UNCHANGED <<now, fs, wait_vars, timeout, exit_code, final_log, writes, written,
                   parser_vars>>

\* wait_for_build_completion, lines 102-108.
Snapshot ==
    /\ pc = "wait"
    /\ initial_log' = get_latest_build_log(fs)
    /\ initial_time' = now
    /\ start_time' = now
    /\ pc' = "detect"
    /\ UNCHANGED <<now, fs, last_modified, stable_count, completed, build_success,
                   outcome, saw_written, hist, sampled_at, stable_log, build_vars,
                   writes, written, parser_vars>>

\* A loop that would take one more turn, at elapsed = timeout.
WithinTimeoutInclusive(elapsed, limit) == elapsed <= limit

\* while time.time() - start_time < timeout (both loops)
WithinTimeout(elapsed, limit) == elapsed < limit

\* if current_log and (not initial_log or current_log != initial_log or
\*                     current_log.stat().st_mtime > initial_time):
BuildStarted(current_log) ==
    /\ current_log # None
    /\ \/ initial_log = None
       \/ current_log # initial_log
       \/ fs[current_log].mtime > initial_time

\* One turn of the first loop: the sample, then the break or time.sleep(1).
DetectSample ==
    /\ pc = "detect"
    /\ WithinTimeout(now - start_time, timeout)
    /\ LET current_log == get_latest_build_log(fs)
       IN  /\ sampled_at' = now
           /\ saw_written' = (saw_written \/
                  (current_log # None /\ fs[current_log].mtime > trigger_time))
           /\ IF BuildStarted(current_log)
              THEN /\ pc' = "stable"
                   /\ last_modified' = 0
                   /\ stable_count' = 0
                   /\ UNCHANGED now
              ELSE /\ now' = now + 1
                   /\ UNCHANGED <<pc, last_modified, stable_count>>
    /\ UNCHANGED <<fs, initial_log, initial_time, start_time, completed,
                   build_success, outcome, hist, stable_log, build_vars, writes,
                   written, parser_vars>>

\* The else of the first loop: "Timeout waiting for build to start".
DetectTimeout ==
    /\ pc = "detect"
    /\ ~WithinTimeout(now - start_time, timeout)
    /\ completed' = FALSE /\ build_success' = FALSE
    /\ outcome' = "start_timeout"
    /\ pc' = "waited"
    /\ UNCHANGED <<now, fs, initial_log, initial_time, start_time, last_modified,
                   stable_count, saw_written, hist, sampled_at, stable_log,
                   build_vars, writes, written, parser_vars>>

StableSamples == 3

\* A count that would survive a change of the modification time.
NextStableCountNoReset(count, current_modified, last) ==
    IF current_modified = last THEN count + 1 ELSE count

\* if current_modified == last_modified: stable_count += 1
\* else: last_modified = current_modified; stable_count = 0
NextStableCount(count, current_modified, last) ==
    IF current_modified = last THEN count + 1 ELSE 0

\* A verdict that would let warnings fail the build.
NoErrorsNoWarnings(results) ==
    results.errors = EmptyBag /\ results.warnings = EmptyBag

\* build_success = len(results["errors"]) == 0; build() returns False on
\* results["errors"], True otherwise.
NoErrors(results) == results.errors = EmptyBag

LastN(s, n) == IF Len(s) <= n THEN s ELSE SubSeq(s, Len(s) - n + 1, Len(s))

\* One turn of the second loop.
StableSample ==
    /\ pc = "stable"
    /\ WithinTimeout(now - start_time, timeout)
    /\ sampled_at' = now
    /\ LET current_log == get_latest_build_log(fs)
           current_modified == fs[current_log].mtime
           count == NextStableCount(stable_count, current_modified, last_modified)
       IN  IF current_log = None
           THEN /\ now' = now + 1
                /\ UNCHANGED <<pc, last_modified, stable_count, completed,
                               build_success, outcome, hist, stable_log>>
           ELSE /\ hist' = LastN(Append(hist, current_modified), 5)
                /\ stable_count' = count
                /\ last_modified' = current_modified
                /\ IF current_modified = last_modified /\ count >= StableSamples
                   THEN /\ completed' = TRUE
                        /\ build_success' =
                               NoErrors(parsed[fs[current_log].content])
                        /\ stable_log' = LogAt(fs, current_log)
                        /\ outcome' = "completed"
                        /\ pc' = "waited"
                        /\ UNCHANGED now
                   ELSE /\ now' = now + 1
                        /\ UNCHANGED <<pc, completed, build_success, outcome,
                                       stable_log>>
    /\ UNCHANGED <<fs, initial_log, initial_time, start_time, saw_written,
                   build_vars, writes, written, parser_vars>>

\* "Timeout waiting for build completion".
StableTimeout ==
    /\ pc = "stable"
    /\ ~WithinTimeout(now - start_time, timeout)
    /\ completed' = FALSE /\ build_success' = FALSE
    /\ outcome' = "completion_timeout"
    /\ pc' = "waited"
    /\ UNCHANGED <<now, fs, initial_log, initial_time, start_time, last_modified,
                   stable_count, saw_written, hist, sampled_at, stable_log,
                   build_vars, writes, written, parser_vars>>

\* build, lines 258-289: the log is fetched again and parsed.
BuildFinish ==
    /\ pc = "waited"
    /\ LET log_path == get_latest_build_log(fs)
       IN  IF ~completed
           THEN success' = FALSE /\ UNCHANGED final_log
           ELSE IF log_path # None
           THEN /\ final_log' = LogAt(fs, log_path)
                /\ success' = NoErrors(parsed[fs[log_path].content])
           ELSE /\ success' = build_success
                /\ UNCHANGED final_log
    /\ pc' = "return"
    /\ UNCHANGED <<now, fs, wait_vars, timeout, launched, exit_code, trigger_time,
                   writes, written, parser_vars>>

\* main: sys.exit(0 if success else 1)
MainExit ==
    /\ pc = "return"
    /\ exit_code' = IF success THEN 0 ELSE 1
    /\ pc' = "exit"
    /\ UNCHANGED <<now, fs, wait_vars, timeout, launched, success, trigger_time,
                   final_log, writes, written, parser_vars>>

\* ------------------------------------------------------------------- the IDE
\* The IDE acts from the trigger keystroke until build() has fetched the log
\* again.
Watching == pc \in {"wait", "detect", "stable", "waited"}

\* The IDE creates a log or rewrites one, at a later instant than every
\* reading of the clock so far.
WriteLog(n, c) ==
    /\ Watching
    /\ writes < MaxWrites
    /\ writes' = writes + 1
    /\ now' = now + 1
    /\ fs' = [fs EXCEPT ![n] = File(now + 1, c)]
    /\ written' = (written \/ pc # "waited")
    /\ UNCHANGED <<pc, wait_vars, build_vars, parser_vars>>

RemoveLog(n) ==
    /\ Watching
    /\ fs[n].present
    /\ fs' = [fs EXCEPT ![n] = NoFile]
    /\ UNCHANGED <<pc, now, wait_vars, build_vars, writes, written, parser_vars>>

Program ==
    \/ \E permitted, exists \in BOOLEAN : MainStart(permitted, exists)
    \/ \E active, opened, triggered \in BOOLEAN : BuildTrigger(active, opened, triggered)
    \/ Snapshot
    \/ DetectSample
    \/ DetectTimeout
    \/ StableSample
    \/ StableTimeout
    \/ BuildFinish
    \/ MainExit

IDE ==
    \/ \E n \in Names, c \in Contents : WriteLog(n, c)
    \/ \E n \in Names : RemoveLog(n)

Next == Program \/ IDE

Spec == Init /\ [][Next]_vars

\* The program is one sequential process that keeps running.
SpecFair == Spec /\ WF_vars(Program)

\* ------------------------------------------------- the parser on single lines
InitLine ==
    /\ pc = "parse" /\ now = 0 /\ fs = [n \in Names |-> NoFile] /\ timeout = 0
    /\ Idle
    /\ Tabulated
    /\ line \in Lines
    /\ lineDone = FALSE
    /\ lineResult = EmptyResult
    /\ log = <<>> /\ logStage = "off" /\ logResult = EmptyResult
    /\ baseline = EmptyResult

ParseOneLine ==
    /\ pc = "parse"
    /\ ~lineDone
    /\ lineResult' = ParseLine(EmptyResult, line)
    /\ lineDone' = TRUE
    /\ UNCHANGED <<pc, now, fs, wait_vars, build_vars, writes, written, parsed,
                   line, log, logStage, logResult, baseline>>

NextLine == ParseOneLine

SpecLine == InitLine /\ [][NextLine]_vars

\* --------------------------------------------------- the parser on whole logs
\* content.split('\n') gives at least one line.
InitLog ==
    /\ pc = "parse" /\ now = 0 /\ fs = [n \in Names |-> NoFile] /\ timeout = 0
    /\ Idle
    /\ Tabulated
    /\ line = <<>> /\ lineDone = TRUE /\ lineResult = EmptyResult
    /\ log \in UNION {[1..n -> LogLines] : n \in 1..MaxLines}
    /\ logStage = "fresh"
    /\ logResult = EmptyResult
    /\ baseline = EmptyResult

\* parse_build_log on the log; the first result is kept as the baseline.
ParseLog ==
    /\ logStage \in {"fresh", "reordered"}
    /\ logStage' = IF logStage = "fresh" THEN "parsed" ELSE "reparsed"
    /\ logResult' = parse_build_log(log)
    /\ baseline' = IF logStage = "fresh" THEN parse_build_log(log) ELSE baseline
    /\ UNCHANGED <<pc, now, fs, wait_vars, build_vars, writes, written, parsed,
                   line, lineDone, lineResult, log>>

\* The same lines in another order: lines i and i + 1 change places.
ReorderLog(i) ==
    /\ logStage \in {"parsed", "reparsed"}
    /\ i + 1 <= Len(log)
    /\ log[i] # log[i + 1]
    /\ log' = [log EXCEPT ![i] = log[i + 1], ![i + 1] = log[i]]
    /\ logStage' = "reordered"
    /\ UNCHANGED <<pc, now, fs, wait_vars, build_vars, writes, written, parsed,
                   line, lineDone, lineResult, logResult, baseline>>

NextLog == ParseLog \/ \E i \in 1..MaxLines : ReorderLog(i)

SpecLog == InitLog /\ [][NextLog]_vars

\* ------------------------------------------------- the completion statements
RECURSIVE Unchanged(_)
\* The number of samples at the end of h that saw the same modification time
\* as the sample before them.
Unchanged(h) ==
    IF Len(h) < 2 THEN 0
    ELSE IF h[Len(h)] # h[Len(h) - 1] THEN 0
    ELSE 1 + Unchanged(SubSeq(h, 1, Len(h) - 1))

Returned == outcome # "running"

\* C1: completion is signalled exactly when the samples of the stability phase
\* that saw a log end with 3 consecutive samples whose modification time is
\* that of the sample before; until then stable_count is the number of such
\* samples, so a sample with another modification time restarts it at 0.
C1_StabilityRule ==
    /\ (outcome = "completed") <=> (Unchanged(hist) >= 3)
    /\ pc = "stable" => stable_count = Unchanged(hist) /\ ~completed
    /\ outcome = "completed" => completed /\ stable_count = 3

\* The stable log is reported after a rewrite restarted the count.
C1_Witness ==
    /\ pc = "waited" /\ outcome = "completed"
    /\ Len(hist) = 5 /\ hist[1] # hist[2]
    /\ Unchanged(hist) = 3

\* C2: when the IDE creates or rewrites no log between the trigger and the
\* return of wait_for_build_completion, the wait returns (False, False) from
\* the start-detection loop, without a stability sample and without a parsed
\* log, and build() returns False; (False, True) is never returned.
C2_NoLogNoCompletion ==
    /\ (Returned /\ ~written) =>
           /\ outcome = "start_timeout"
           /\ ~completed /\ ~build_success
           /\ hist = <<>> /\ stable_log = NoLog
    /\ (Returned /\ ~written /\ pc \in {"return", "exit"}) => ~success
    /\ ~(Returned /\ ~completed /\ build_success)

\* C3: every sample of either loop is taken less than timeout seconds after
\* the one start instant; a wait that did not reach stability returns
\* completed = False; and the wait returns, whatever the timeout and however
\* the IDE keeps rewriting the log.
C3_OneWindow ==
    /\ [](sampled_at # 0 => sampled_at - start_time < timeout)
    /\ []((Returned /\ outcome # "completed") => (~completed /\ ~build_success))
    /\ (pc = "wait") ~> (pc = "waited")

\* The window ran out in the stability phase, after a rewrite.
C3_Witness ==
    /\ outcome = "completion_timeout"
    /\ Len(hist) >= 2 /\ stable_count = 0
    /\ now - start_time >= timeout

\* C7: the wait reports success exactly when the stable log has no error;
\* build() returns True only after Xcode was ready, the trigger succeeded, the
\* wait completed and the log it parsed last has no error; a log with warnings
\* and notes only does not fail the build; the exit status is 0 exactly when
\* build() returned True.
C7_SuccessIffNoErrors ==
    /\ outcome = "completed" =>
           (build_success <=> stable_log.content # ErrorLog)
    /\ (pc \in {"return", "exit"} /\ success) =>
           /\ launched /\ completed
           /\ final_log.content # ErrorLog
           /\ final_log = NoLog => build_success
    /\ (pc \in {"return", "exit"} /\ completed /\ final_log # NoLog
            /\ final_log.content \in {WarningLog, Unreadable}) => success
    /\ pc = "exit" => (exit_code = 0 <=> success)
    /\ pc # "exit" => exit_code = -1

\* A build with warnings and notes exits with status 0.
C7_Witness ==
    /\ pc = "exit" /\ exit_code = 0
    /\ final_log.content = WarningLog

\* C8: when a start-detection sample saw a log the IDE wrote after the
\* trigger, the wait does not end with "Timeout waiting for build to start".
C8_StartDetected == saw_written => outcome # "start_timeout"

\* C10: after a completed wait, build() parses the file the wait parsed, with
\* the same content, and returns the wait's verdict.
C10_SameLog ==
    (pc \in {"return", "exit"} /\ outcome = "completed") =>
        (final_log = stable_log /\ success = build_success)

\* ---------------------------------------------------- the parser statements
Records(result) ==
    BagCardinality(result.errors) + BagCardinality(result.warnings)
        + BagCardinality(result.notes)

\* The patterns of a line, as the precedence names them.
ErrorTag(l) == HasTag(l, "error:")
WarningTag(l) == HasTag(l, "warning:")
NoteTag(l) == HasTag(l, "note:")
\* A heuristic phrase of a language in a line with a file:line:col location of
\* that language followed by whitespace.
HeuristicPhrase(l) ==
    \E h \in 1..Len(Heuristics) :
        /\ HeuristicMatch(l, Heuristics[h].exts, FALSE).ok
        /\ Contains(l, Heuristics[h].phrases)
AnyPhrase(l) == \E h \in 1..Len(Heuristics) : Contains(l, Heuristics[h].phrases)

\* C4: a line adds at most one record in total to errors, warnings and notes.
C4_AtMostOneRecord == lineDone => Records(lineResult) <= 1

\* A line with the three tags gives one record.
C4_Witness ==
    /\ lineDone
    /\ ErrorTag(line) /\ WarningTag(line) /\ NoteTag(line)
    /\ Records(lineResult) = 1

C9_WarningRecorded ==
    (lineDone /\ ~ErrorTag(line) /\ ~AnyPhrase(line)
        /\ FileTagMatch(line, "warning:").ok)
    => lineResult.warnings # EmptyBag

Unique(coll) == \A m \in BagToSet(coll) : CopiesIn(m, coll) = 1

\* C6: in each collection every message occurs once, and the three sets of
\* messages are those of the same lines in their first order.
C6_Dedup ==
    logStage \in {"parsed", "reparsed"} =>
        /\ Unique(logResult.errors) /\ Unique(logResult.warnings)
        /\ Unique(logResult.notes)
        /\ BagToSet(logResult.errors) = BagToSet(baseline.errors)
        /\ BagToSet(logResult.warnings) = BagToSet(baseline.warnings)
        /\ BagToSet(logResult.notes) = BagToSet(baseline.notes)

\* Two different lines with the same message, parsed again in another order.
C6_Witness ==
    /\ logStage = "reparsed"
    /\ \E i, j \in 1..Len(log) : log[i] = HeuristicLine /\ log[j] = SimpleErrorLine
    /\ BagCardinality(logResult.errors) = 1
====
